---- MODULE Spec2Model ----
(***************************************************************************)
(* A model of the reprojection engine of rasterfaster:                     *)
(*   src/src/project_algos.hpp  (Projection variants, ProjectionWorker,    *)
(*                               getProjection, project)                   *)
(*   src/src/project.cpp        (the exported entry point)                 *)
(*                                                                         *)
(* A C++ double is modelled as an exact rational <<n, d>> (d > 0, lowest   *)
(* terms) or as NaN.  The libm functions the projections call (atan, sinh, *)
(* asin, sin, cos) are tabulated at the arguments the bounded inputs can   *)
(* produce, in thousandths of a degree truncated towards zero.             *)
(***************************************************************************)
EXTENDS Integers, Sequences, FiniteSets, TLC

----------------------------------------------------------------------------
(* double *)

NaN == "NaN"

Abs(i) == IF i < 0 THEN -i ELSE i

RECURSIVE GCD(_, _)
GCD(a, b) == IF b = 0 THEN a ELSE GCD(b, a % b)

\* the one element of a singleton.  An operand is bound as the element of
\* a singleton so that it is evaluated once.
Only(S) == CHOOSE v \in S : TRUE

\* the double n/d
Dbl(n, d) ==
  Only({ <<((IF e < 0 THEN -1 ELSE 1) * m) \div GCD(Abs(m), Abs(e)),
           ((IF e < 0 THEN -1 ELSE 1) * e) \div GCD(Abs(m), Abs(e))>> :
         m \in {n}, e \in {d} })

DInt(i) == <<i, 1>>

IsNaN(a) == a = NaN

DAdd(a, b) ==
  Only({ IF IsNaN(x) \/ IsNaN(y) THEN NaN
         ELSE Dbl(x[1] * y[2] + y[1] * x[2], x[2] * y[2]) : x \in {a}, y \in {b} })

DSub(a, b) ==
  Only({ IF IsNaN(x) \/ IsNaN(y) THEN NaN
         ELSE Dbl(x[1] * y[2] - y[1] * x[2], x[2] * y[2]) : x \in {a}, y \in {b} })

DMul(a, b) ==
  Only({ IF IsNaN(x) \/ IsNaN(y) THEN NaN
         ELSE Dbl(x[1] * y[1], x[2] * y[2]) : x \in {a}, y \in {b} })

\* x / 0 is an infinity or NaN in IEEE arithmetic; the model's inputs never
\* divide by zero (bounding boxes and totals are non-degenerate).
DDiv(a, b) ==
  Only({ IF IsNaN(x) \/ IsNaN(y) \/ y[1] = 0 THEN NaN
         ELSE Dbl(x[1] * y[2], x[2] * y[1]) : x \in {a}, y \in {b} })

\* IEEE comparisons: every comparison with NaN is false
DLt(a, b) ==
  \E x \in {a}, y \in {b} : ~IsNaN(x) /\ ~IsNaN(y) /\ x[1] * y[2] < y[1] * x[2]
DGe(a, b) ==
  \E x \in {a}, y \in {b} : ~IsNaN(x) /\ ~IsNaN(y) /\ x[1] * y[2] >= y[1] * x[2]

\* floor of a non-negative double
DFloor(a) == Only({ x[1] \div x[2] : x \in {a} })

----------------------------------------------------------------------------
(* libm, tabulated *)

\* atan(sinh(PI * j/4)) * 180 / PI for j = 0..16, in thousandths of a degree
GdMilliDeg ==
  <<0, 40979, 66513, 79171, 85051, 87742, 88970, 89530, 89786,
    89902, 89955, 89979, 89990, 89995, 89998, 89999, 89999>>

\* atan(sinh(PI * t)) * 180 / PI; atan and sinh are odd
AtanSinhPiDeg(t) ==
  Only({ IF j >= 0 THEN Dbl(GdMilliDeg[j + 1], 1000)
         ELSE Dbl(-GdMilliDeg[1 - j], 1000) :
         j \in {(4 * v[1]) \div v[2] : v \in {t}} })

\* theta = asin(s).  theta is represented by its sine s; asin of an argument
\* outside [-1, 1] is NaN.
Asin(s) ==
  Only({ IF DGe(v, DInt(-1)) /\ DGe(DInt(1), v) THEN v ELSE NaN : v \in {s} })

\* asin((2*theta + sin(2*theta)) / PI) * 180 / PI, for sin(theta) = h/2
PhiMilliDeg == <<0, 37517, 90000>>

PhiDeg(theta) ==
  Only({ IF IsNaN(th) THEN NaN
         ELSE IF th[1] >= 0 THEN Dbl(PhiMilliDeg[(2 * th[1]) \div th[2] + 1], 1000)
         ELSE Dbl(-PhiMilliDeg[(-2 * th[1]) \div th[2] + 1], 1000) :
         th \in {theta} })

\* cos(theta) for sin(theta) = h/2.  In double arithmetic asin(1) is the
\* double nearest PI/2 and its cosine is 6.1e-17: tiny, positive, not zero.
CosTable == << <<1, 1>>, <<433, 500>>, <<1, 1000000>> >>

Cos(theta) ==
  Only({ IF IsNaN(th) THEN NaN ELSE CosTable[(2 * Abs(th[1])) \div th[2] + 1] :
         th \in {theta} })

----------------------------------------------------------------------------
(* Projection<T>::reverse *)

WebMercatorReverse(x, y) ==
  LET lng == DSub(DMul(x, DInt(360)), DInt(180))
      lat == AtanSinhPiDeg(DSub(DInt(1), DMul(DInt(2), y)))
  IN  [lng |-> lng, lat |-> lat]

\* The plane coordinates are kept in units of r_sqrt2 = R * sqrt(2): x and y
\* are scaled by 4 * r_sqrt2 and shifted by 2 * r_sqrt2.
MollweidePlane(v) == DSub(DMul(v, DInt(4)), DInt(2))

\* The plane coordinates as the standard Mollweide inverse has them: y spans
\* [-r_sqrt2, r_sqrt2] only.
MollweideArgHalfSpan(y) == DSub(DMul(y, DInt(2)), DInt(1))

\* y / r_sqrt2 after the rescaling of lines 43-44: the argument of asin
MollweideAsinArg(y) == MollweidePlane(y)

\* lines 46-51, for arg the argument of asin.  lambda * 180 / PI is
\* 180 * x1 / (2 * cos(theta)), for x1 the plane coordinate in units of
\* r_sqrt2.
MollweideFromArg(x, arg) ==
  Only({ [lng |-> DDiv(DMul(DInt(180), MollweidePlane(x)),
                       DMul(DInt(2), Cos(theta))),
          lat |-> DMul(PhiDeg(theta), DInt(-1))] :
         theta \in {Asin(arg)} })

MollweideReverse(x, y) == MollweideFromArg(x, MollweideAsinArg(y))

\* What a double can add to 1.  At y = 3/4 the product y * (4 * r_sqrt2)
\* is rounded, and the argument of asin is 1 only if the compiler fuses the
\* multiplication with the subtraction; otherwise it is the next double
\* above 1.  At every other y = j/8 the argument is far from 1 and -1, or
\* exact.
Epsilon == <<1, 1000000>>

MollweideAsinArgs(y) ==
  IF MollweideAsinArg(y) = DInt(1)
  THEN {DInt(1), DAdd(DInt(1), Epsilon)}
  ELSE {MollweideAsinArg(y)}

----------------------------------------------------------------------------
(* getProjection *)

NULL == "NULL"

getProjection(name) ==
  IF name = "epsg:3857" THEN "WebMercatorProjection"
  ELSE IF name = "mollweide" THEN "MollweideProjection"
  ELSE NULL

\* pProj->reverse(x, y, &lng, &lat): virtual dispatch on the instance
Reverse(proj, x, y) ==
  IF proj = "WebMercatorProjection" THEN WebMercatorReverse(x, y)
  ELSE MollweideReverse(x, y)

----------------------------------------------------------------------------
(* Grid<T> and Interpolator<T> *)

\* Grid::at(row, col): the offset of the element in the flat buffer
At(grid, row, col) == row * grid.stride + col

\* *grid.at(row, col) as an rvalue; a read outside the buffer is undefined
Read(grid, row, col) ==
  IF At(grid, row, col) \in DOMAIN grid.data
  THEN grid.data[At(grid, row, col)]
  ELSE "out of bounds"

Min(a, b) == IF a < b THEN a ELSE b

\* Bilinear::getValue(grid, x, y): the four neighbours (the upper ones
\* clamped to the last column and row) and the two fractional weights.  The
\* weighted sum is kept unevaluated: equal records are equal values.
getValue(grid, x, y) ==
  Only({ LET x1 == Min(x0 + 1, grid.cols - 1)
             y1 == Min(y0 + 1, grid.rows - 1)
         IN  [fx |-> DSub(x, DInt(x0)), fy |-> DSub(y, DInt(y0)),
              g  |-> <<Read(grid, y0, x0), Read(grid, y0, x1),
                       Read(grid, y1, x0), Read(grid, y1, x1)>>] :
         x0 \in {DFloor(x)}, y0 \in {DFloor(y)} })

\* -std::numeric_limits<double>::max()
Sentinel == [nodata |-> "-DBL_MAX"]

----------------------------------------------------------------------------
(* ProjectionWorker::operator() *)

\* a worker that divides by the column count
DecomposeByCols(w, i) == [x |-> i \div w.tgt.cols, y |-> i % w.tgt.rows]

\* lines 74-75: column-major decomposition of the flat index
Decompose(w, i) == [x |-> i \div w.tgt.rows, y |-> i % w.tgt.rows]

\* a worker that forgets the tile's origin
NormNoOrigin(w, p) ==
  [x |-> DDiv(DInt(p.x), DInt(w.xTotal)),
   y |-> DDiv(DInt(p.y), DInt(w.yTotal))]

\* lines 79-80: the pixel's position in the whole projected image
Norm(w, p) ==
  [x |-> DDiv(DAdd(DInt(p.x), DInt(w.xOrigin)), DInt(w.xTotal)),
   y |-> DDiv(DAdd(DInt(p.y), DInt(w.yOrigin)), DInt(w.yTotal))]

\* a worker that forgets the western edge of the source
SrcNormNoWest(w, r) ==
  [x |-> DDiv(r.lng, DSub(DInt(w.lng2), DInt(w.lng1))),
   y |-> DSub(DInt(1), DDiv(DSub(r.lat, DInt(w.lat1)),
                             DSub(DInt(w.lat2), DInt(w.lat1))))]

\* a worker that takes row 0 of the source for its southern edge
SrcNormNoFlip(w, r) ==
  [x |-> DDiv(DSub(r.lng, DInt(w.lng1)), DSub(DInt(w.lng2), DInt(w.lng1))),
   y |-> DDiv(DSub(r.lat, DInt(w.lat1)), DSub(DInt(w.lat2), DInt(w.lat1)))]

\* lines 84-85: the position in the source image, normalized
SrcNorm(w, r) ==
  [x |-> DDiv(DSub(r.lng, DInt(w.lng1)), DSub(DInt(w.lng2), DInt(w.lng1))),
   y |-> DSub(DInt(1), DDiv(DSub(r.lat, DInt(w.lat1)),
                             DSub(DInt(w.lat2), DInt(w.lat1))))]

\* a guard that lets the far edges in
InSourceClosed(s) ==
  \E v \in {s} :
    /\ DGe(v.x, DInt(0)) /\ DGe(DInt(1), v.x)
    /\ DGe(v.y, DInt(0)) /\ DGe(DInt(1), v.y)

\* line 87
InSource(s) ==
  \E v \in {s} :
    /\ DGe(v.x, DInt(0)) /\ DLt(v.x, DInt(1))
    /\ DGe(v.y, DInt(0)) /\ DLt(v.y, DInt(1))

\* lines 84-95, given the reverse-projected position r of pixel p: the one
\* store of the iteration, and the interpolator call if there is one
Store(w, p, r) ==
  Only({ [cell |-> At(w.tgt, p.y, p.x), row |-> p.y, col |-> p.x,
          value |-> IF InSource(s) THEN getValue(w.src, sx, sy) ELSE Sentinel,
          call  |-> IF InSource(s) THEN {<<sx, sy>>} ELSE {}] :
         s \in {SrcNorm(w, r)},
         sx \in {DMul(SrcNorm(w, r).x, DInt(w.src.cols))},
         sy \in {DMul(SrcNorm(w, r).y, DInt(w.src.rows))} })

\* lines 74-96: one iteration of the loop, for a worker with a projection
LoopBody(w, i) ==
  Only({ Store(w, p, r) :
         p \in {Decompose(w, i)},
         r \in {Reverse(w.pProj, Norm(w, Decompose(w, i)).x,
                                 Norm(w, Decompose(w, i)).y)} })

----------------------------------------------------------------------------
(* bounds and inputs *)

\* the most chunks parallelFor splits the index range into
MaxChunks == 3
\* the size of the worker pool
NThreads == 2
\* padding elements at the end of each row of the target buffer
TgtPad == 1

ProjNames == {"epsg:3857", "mollweide", "albers"}

\* (lat1, lat2, lng1, lng2): south, north, west, east, in whole degrees
BBoxes ==
  {<<-10, 10, -10, 10>>, <<-90, 90, -180, 180>>, <<-60, 60, 0, 360>>,
   <<-85, 85, -180, 180>>}

\* (xOrigin, xTotal, yOrigin, yTotal)
Placements ==
  {<<0, 4, 0, 2>>, <<22, 36, 0, 2>>, <<18, 36, 0, 2>>, <<3, 4, 3, 8>>,
   <<0, 4, 1, 2>>, <<0, 2, 2, 8>>, <<1, 2, 0, 8>>}

\* (rows, cols) of the target
Shapes == {<<1, 2>>, <<2, 1>>, <<2, 2>>}

\* the source: 2 rows of 3 samples in a buffer of stride 4
SrcGrid ==
  [stride |-> 4, rows |-> 2, cols |-> 3,
   data |-> [o \in 0 .. 7 |-> 10 * (o \div 4) + (o % 4)]]

TgtGrid(shape) ==
  [stride |-> shape[2] + TgtPad, rows |-> shape[1], cols |-> shape[2]]

\* the fields of a ProjectionWorker (lines 57-62, 65-70)
Worker(proj, bbox, shape, place) ==
  [pProj |-> proj, src |-> SrcGrid,
   lat1 |-> bbox[1], lat2 |-> bbox[2], lng1 |-> bbox[3], lng2 |-> bbox[4],
   tgt |-> TgtGrid(shape),
   xOrigin |-> place[1], xTotal |-> place[2],
   yOrigin |-> place[3], yTotal |-> place[4]]

BufLen(w) == w.tgt.rows * w.tgt.stride
NPixels(w) == w.tgt.rows * w.tgt.cols

\* what the target buffer holds before the call
Old == [old |-> TRUE]

----------------------------------------------------------------------------
(* state *)

VARIABLES
  name,     \* the projection identifier of the request
  worker,   \* the ProjectionWorker of the call
  pc,       \* "called", "parallel", "returned", "crashed"; "-" outside a call
  chunks,   \* the chunks of parallelFor: [begin, end, cur, owner]
  tgt,      \* the target buffer, by offset
  writes,   \* per offset, the (chunk, index) pairs that stored to it
  reads,    \* the offsets of the target buffer a task has read
  calls,    \* per index, the coordinates passed to the interpolator
  tiles,    \* tile runs: per call, [w, cur, buf]
  rv        \* a reverse projection: [proj, x, y, out]

vars == <<name, worker, pc, chunks, tgt, writes, reads, calls, tiles, rv>>

engineVars == <<name, worker, pc, chunks, tgt, writes, reads, calls>>

NoEngine ==
  /\ name = "-" /\ worker = "-" /\ pc = "-" /\ chunks = <<>>
  /\ tgt = <<>> /\ writes = <<>> /\ reads = {} /\ calls = <<>>

----------------------------------------------------------------------------
(* project *)

RECURSIVE SortSet(_)
SortSet(S) ==
  IF S = {} THEN <<>>
  ELSE LET m == CHOOSE a \in S : \A b \in S : a <= b
       IN  <<m>> \o SortSet(S \ {m})

\* the chunks that the cut points S split [0, n) into
ChunksOf(S, n) ==
  LET b == SortSet(S \cup {0, n})
  IN  [k \in 1 .. Len(b) - 1 |->
         [begin |-> b[k], end |-> b[k + 1], cur |-> b[k], owner |-> 0]]

\* a request: the identifier is resolved by getProjection and the instance,
\* or the null pointer, is what project is called with
InitWith(names, bboxes, shapes, places) ==
  /\ name \in names
  /\ \E bbox \in bboxes, shape \in shapes, place \in places :
       worker = Worker(getProjection(name), bbox, shape, place)
  /\ pc = "called"
  /\ chunks = <<>>
  /\ tgt = [o \in 0 .. BufLen(worker) - 1 |-> Old]
  /\ writes = [o \in 0 .. BufLen(worker) - 1 |-> {}]
  /\ reads = {}
  /\ calls = [i \in 0 .. NPixels(worker) - 1 |-> {}]
  /\ tiles = <<>>
  /\ rv = <<>>

Init == InitWith(ProjNames, BBoxes, Shapes, Placements)

\* lines 134-138: construct the worker and hand [0, rows * cols) to
\* parallelFor, which splits it into contiguous chunks.  There is no test of
\* pProject.
Project ==
  /\ pc = "called"
  /\ pc' = "parallel"
  /\ \E S \in SUBSET (1 .. NPixels(worker) - 1) :
       /\ Cardinality(S) < MaxChunks
       /\ chunks' = ChunksOf(S, NPixels(worker))
  /\ UNCHANGED <<name, worker, tgt, writes, reads, calls, tiles, rv>>

Busy(t) == \E k \in DOMAIN chunks : chunks[k].owner = t /\ chunks[k].cur < chunks[k].end

\* chunk k may run on thread t: it runs there already, or no thread has it
\* and t is idle
RunsOn(k, t) ==
  \/ chunks[k].owner = t
  \/ chunks[k].owner = 0 /\ ~Busy(t)

Advance(k, t) ==
  chunks' = [chunks EXCEPT ![k].cur = @ + 1, ![k].owner = t]

\* the effect of one iteration's store st by chunk k at index i
Commit(k, i, st) ==
  \E s \in {st} :
    /\ tgt' = [tgt EXCEPT ![s.cell] = s.value]
    /\ writes' = [writes EXCEPT ![s.cell] = @ \cup {<<k, i>>}]
    /\ calls' = [calls EXCEPT ![i] = @ \cup s.call]
    /\ reads' = reads

\* a loop that counts from 0 in every chunk
LoopIndexFromZero(k) == chunks[k].cur - chunks[k].begin

\* line 73: i runs from begin
LoopIndex(k) == chunks[k].cur

\* a loop that stops one short
InLoopShort(k) == chunks[k].cur < chunks[k].end - 1

\* line 73: i < end
InLoop(k) == chunks[k].cur < chunks[k].end

\* lines 73-97: one iteration of the loop of chunk k, on thread t
WorkerStep(k, t) ==
  /\ pc = "parallel"
  /\ worker.pProj # NULL
  /\ InLoop(k)
  /\ RunsOn(k, t)
  /\ Commit(k, LoopIndex(k), LoopBody(worker, LoopIndex(k)))
  /\ Advance(k, t)
  /\ UNCHANGED <<name, worker, pc, tiles, rv>>

\* what lng and lat may hold when the call through the null pointer returns
Indeterminate == {[lng |-> DInt(0), lat |-> DInt(0)]}

\* line 82 with pProj null: the virtual call through a null pointer is
\* undefined.  The process dies, or the iteration goes on with lng and lat
\* indeterminate.
NullStep(k, t) ==
  /\ pc = "parallel"
  /\ worker.pProj = NULL
  /\ InLoop(k)
  /\ RunsOn(k, t)
  /\ \/ /\ pc' = "crashed"
        /\ UNCHANGED <<chunks, tgt, writes, reads, calls>>
     \/ /\ \E r \in Indeterminate :
             Commit(k, LoopIndex(k),
                    Store(worker, Decompose(worker, LoopIndex(k)), r))
        /\ Advance(k, t)
        /\ pc' = pc
  /\ UNCHANGED <<name, worker, tiles, rv>>

AllDone == \A k \in DOMAIN chunks : chunks[k].cur = chunks[k].end

\* line 138: parallelFor returns when every chunk has run
Return ==
  /\ pc = "parallel"
  /\ AllDone
  /\ pc' = "returned"
  /\ UNCHANGED <<name, worker, chunks, tgt, writes, reads, calls, tiles, rv>>

Next ==
  \/ Project
  \/ \E k \in DOMAIN chunks, t \in 1 .. NThreads : WorkerStep(k, t)
  \/ \E k \in DOMAIN chunks, t \in 1 .. NThreads : NullStep(k, t)
  \/ Return

Spec == Init /\ [][Next]_vars

----------------------------------------------------------------------------
(* the same image as one call and as two tiles *)

\* the widest and the tallest whole image that is cut into tiles
MaxTileCols == 3
MaxTileRows == 2

\* (yOrigin, yTotal) of the tile runs
TilePlacementsY == {<<0, 2>>, <<3, 8>>, <<1, 2>>}

Resolved == {getProjection(n) : n \in ProjNames} \ {NULL}

TileCalls == {"full", "left", "right"}

TileRun(w) ==
  [w |-> w, cur |-> 0, buf |-> [o \in 0 .. BufLen(w) - 1 |-> Old]]

\* project for the whole image (x_origin 0, xTotal columns) and for the two
\* tiles that the column split cuts it into
InitTiles ==
  /\ NoEngine
  /\ rv = <<>>
  /\ \E proj \in Resolved, bbox \in BBoxes, py \in TilePlacementsY,
        rows \in 1 .. MaxTileRows, xTotal \in 2 .. MaxTileCols :
       \E split \in 1 .. xTotal - 1 :
         tiles =
           [c \in TileCalls |->
              TileRun(Worker(proj, bbox,
                IF c = "full" THEN <<rows, xTotal>>
                ELSE IF c = "left" THEN <<rows, split>>
                ELSE <<rows, xTotal - split>>,
                <<IF c = "right" THEN split ELSE 0, xTotal, py[1], py[2]>>))]

\* lines 73-97: the next iteration of call c, run as one chunk
TileStep(c) ==
  /\ tiles[c].cur < NPixels(tiles[c].w)
  /\ LET st == LoopBody(tiles[c].w, tiles[c].cur)
     IN  tiles' = [tiles EXCEPT ![c].cur = @ + 1,
                                ![c].buf = [@ EXCEPT ![st.cell] = st.value]]
  /\ UNCHANGED <<engineVars, rv>>

NextTiles == \E c \in TileCalls : TileStep(c)

SpecTiles == InitTiles /\ [][NextTiles]_vars

----------------------------------------------------------------------------
(* reverse, on its own *)

\* x and y run over 0/8 .. RevMax/8
RevMax == 8

\* reverse has not been called yet
NotCalled == [called |-> FALSE]

InitReverse ==
  /\ NoEngine
  /\ tiles = <<>>
  /\ \E proj \in Resolved, i \in 0 .. RevMax, j \in 0 .. RevMax :
       rv = [proj |-> proj, x |-> Dbl(i, 8), y |-> Dbl(j, 8), out |-> NotCalled]

\* WebMercatorProjection::reverse(x, y, &lng, &lat)
CallWebMercator ==
  /\ rv.proj = "WebMercatorProjection"
  /\ rv.out = NotCalled
  /\ rv' = [rv EXCEPT !.out = WebMercatorReverse(rv.x, rv.y)]
  /\ UNCHANGED <<engineVars, tiles>>

\* MollweideProjection::reverse(x, y, &lng, &lat), with the argument that
\* line 46 passes to asin
CallMollweide ==
  /\ rv.proj = "MollweideProjection"
  /\ rv.out = NotCalled
  /\ \E arg \in MollweideAsinArgs(rv.y) :
       rv' = [rv EXCEPT !.out =
                [lng |-> MollweideFromArg(rv.x, arg).lng,
                 lat |-> MollweideFromArg(rv.x, arg).lat,
                 arg |-> arg]]
  /\ UNCHANGED <<engineVars, tiles>>

NextReverse == CallWebMercator \/ CallMollweide

SpecReverse == InitReverse /\ [][NextReverse]_vars

----------------------------------------------------------------------------
(* project under a fair scheduler *)

LivePlacements == {<<0, 4, 0, 2>>, <<3, 4, 3, 8>>}

InitLive ==
  InitWith(ProjNames, {<<-90, 90, -180, 180>>}, Shapes, LivePlacements)

\* the pool keeps running whatever can run
FairSpec == InitLive /\ [][Next]_vars /\ WF_vars(Next)

----------------------------------------------------------------------------
(* properties *)

HasProjection == worker.pProj # NULL

\* index i has been through the loop of its chunk
Done(i) ==
  \E k \in DOMAIN chunks : chunks[k].begin <= i /\ i < chunks[k].cur

Rows == 0 .. worker.tgt.rows - 1
Cols == 0 .. worker.tgt.cols - 1

\* the flat index and the buffer offset of target pixel (row, col)
IndexOf(row, col) == col * worker.tgt.rows + row
OffsetOf(row, col) == row * worker.tgt.stride + col

In01(v) == ~IsNaN(v) /\ 0 <= v[1] /\ v[1] < v[2]

\* the source-normalized coordinates of target pixel (row, col)
SrcXNorm(row, col) ==
  LET r == Reverse(worker.pProj, Dbl(col + worker.xOrigin, worker.xTotal),
                                 Dbl(row + worker.yOrigin, worker.yTotal))
  IN  DDiv(DSub(r.lng, DInt(worker.lng1)), DInt(worker.lng2 - worker.lng1))

SrcYNorm(row, col) ==
  LET r == Reverse(worker.pProj, Dbl(col + worker.xOrigin, worker.xTotal),
                                 Dbl(row + worker.yOrigin, worker.yTotal))
  IN  DSub(DInt(1),
           DDiv(DSub(r.lat, DInt(worker.lat1)), DInt(worker.lat2 - worker.lat1)))

C2_WrittenOnce ==
  /\ reads = {}
  /\ \A o \in DOMAIN writes :
       /\ Cardinality(writes[o]) <= 1
       /\ \A wr \in writes[o] :
            /\ wr[2] \in 0 .. NPixels(worker) - 1
            /\ wr[2] \div worker.tgt.rows \in Cols
            /\ o = OffsetOf(wr[2] % worker.tgt.rows, wr[2] \div worker.tgt.rows)
            /\ chunks[wr[1]].begin <= wr[2] /\ wr[2] < chunks[wr[1]].end
  /\ pc = "returned" =>
       /\ \A row \in Rows, col \in Cols :
            Cardinality(writes[OffsetOf(row, col)]) = 1
       /\ \A o \in DOMAIN writes :
            writes[o] # {} => \E row \in Rows, col \in Cols : o = OffsetOf(row, col)

\* the call has returned, three chunks wrote the four cells, on two threads
C2_Witness ==
  /\ pc = "returned"
  /\ HasProjection
  /\ worker.tgt.rows = 2 /\ worker.tgt.cols = 2
  /\ Len(chunks) = 3
  /\ \E j, k \in DOMAIN chunks : chunks[j].owner # chunks[k].owner
  /\ \A row \in Rows, col \in Cols : writes[OffsetOf(row, col)] # {}

RECURSIVE SerialRun(_, _, _)
\* the target after the loop has run over [i, rows * cols) as one chunk
SerialRun(w, i, buf) ==
  IF i >= NPixels(w) THEN buf
  ELSE LET st == LoopBody(w, i)
       IN  SerialRun(w, i + 1, [buf EXCEPT ![st.cell] = st.value])

\* C3: whatever the chunks, the threads that ran them and the order of their
\* steps, the target holds at return what one chunk run serially leaves.
C3_Deterministic ==
  (pc = "returned" /\ HasProjection) =>
    tgt = SerialRun(worker, 0, [o \in 0 .. BufLen(worker) - 1 |-> Old])

\* a returned call of several chunks on both threads, with a sampled cell
\* and a sentinel cell
C3_Witness ==
  /\ pc = "returned"
  /\ HasProjection
  /\ Len(chunks) >= 2
  /\ \E j, k \in DOMAIN chunks : chunks[j].owner # chunks[k].owner
  /\ \E row \in Rows, col \in Cols : tgt[OffsetOf(row, col)] = Sentinel
  /\ \E row \in Rows, col \in Cols :
       tgt[OffsetOf(row, col)] \notin {Sentinel, Old}

\* the cell of pixel (row, col) of tile run c, once stored
TileDone(c, row, col) == col * tiles[c].w.tgt.rows + row < tiles[c].cur
TileCell(c, row, col) == tiles[c].buf[row * tiles[c].w.tgt.stride + col]

\* C4: global pixel (gx, gy) gets the same value from the call on the whole
\* image and from the call on the tile that holds it, at col = gx - x_origin.
C4_TileIndependent ==
  \A c \in {"left", "right"} :
    \A row \in 0 .. tiles[c].w.tgt.rows - 1, col \in 0 .. tiles[c].w.tgt.cols - 1 :
      (TileDone(c, row, col) /\ TileDone("full", row, col + tiles[c].w.xOrigin))
        => TileCell(c, row, col) = TileCell("full", row, col + tiles[c].w.xOrigin)

\* all three calls have finished, and the right tile, which does not start
\* at column 0, holds a sample and not only sentinels
C4_Witness ==
  /\ \A c \in TileCalls : tiles[c].cur = NPixels(tiles[c].w)
  /\ tiles["right"].w.xOrigin > 0
  /\ \E row \in 0 .. tiles["right"].w.tgt.rows - 1,
        col \in 0 .. tiles["right"].w.tgt.cols - 1 :
       /\ TileCell("right", row, col) # Sentinel
       /\ TileCell("right", row, col) # TileCell("left", row, 0)

\* C5: the request fails exactly when the identifier is unrecognized: with an
\* unrecognized identifier the engine does not run, crash or return as if it
\* had worked, and with a recognized one it does not fail.
C5_FailsIffUnrecognized ==
  /\ name \notin {"epsg:3857", "mollweide"} => pc \in {"called", "failed"}
  /\ name \in {"epsg:3857", "mollweide"} => pc # "failed"

\* C6: when the identifier resolves to no instance the parallel pass is not
\* started and the target buffer is as it was.
C6_NoPartialPass ==
  getProjection(name) = NULL =>
    /\ pc # "parallel"
    /\ chunks = <<>>
    /\ \A o \in DOMAIN tgt : tgt[o] = Old

\* pixel (row, col) lies outside the declared totals
Affected(row, col) ==
  \/ col + worker.xOrigin >= worker.xTotal
  \/ row + worker.yOrigin >= worker.yTotal

\* C7 as stated: for any bounding box, every processed pixel outside the
\* declared totals holds the sentinel, and the call does not crash.
C7_Original ==
  HasProjection =>
    /\ pc # "crashed"
    /\ \A row \in Rows, col \in Cols :
         (Affected(row, col) /\ Done(IndexOf(row, col)))
           => tgt[OffsetOf(row, col)] = Sentinel

\* C7, amended: for a bounding box with lng_east <= 180 and lat_south >= -85,
\* every processed pixel outside the declared totals holds the sentinel, and
\* the call does not crash.
C7_SentinelInsideWorld ==
  HasProjection =>
    /\ pc # "crashed"
    /\ (worker.lng2 <= 180 /\ worker.lat1 >= -85) =>
         \A row \in Rows, col \in Cols :
           (Affected(row, col) /\ Done(IndexOf(row, col)))
             => tgt[OffsetOf(row, col)] = Sentinel

\* both kinds of affected pixel have been processed: one past x_total on the
\* equator side of the box, one past y_total
C7_Witness ==
  /\ HasProjection
  /\ worker.lng2 <= 180 /\ worker.lat1 >= -85
  /\ \E row \in Rows, col \in Cols :
       /\ col + worker.xOrigin >= worker.xTotal
       /\ row + worker.yOrigin < worker.yTotal
       /\ In01(SrcYNorm(row, col))
       /\ Done(IndexOf(row, col))
       /\ tgt[OffsetOf(row, col)] = Sentinel

\* C8: with a projection, the call returns, it returns only after every cell
\* has been stored to, and a chunk that a thread has taken can always take
\* its next step.
C8_RunsToCompletion ==
  /\ [](pc = "returned" =>
          \A row \in Rows, col \in Cols : writes[OffsetOf(row, col)] # {})
  /\ []((pc = "parallel" /\ HasProjection) =>
          \A k \in DOMAIN chunks :
            (chunks[k].owner # 0 /\ chunks[k].cur < chunks[k].end)
              => ENABLED WorkerStep(k, chunks[k].owner))
  /\ ((pc = "called" /\ HasProjection) ~> (pc = "returned"))

\* a call with a projection has returned after three chunks
C8_Witness ==
  /\ pc = "returned" /\ HasProjection /\ Len(chunks) = 3
  /\ \A row \in Rows, col \in Cols : writes[OffsetOf(row, col)] # {}
  /\ worker.tgt.rows * worker.tgt.cols = 4

MollweideCalled == rv.proj = "MollweideProjection" /\ rv.out # NotCalled

\* y lies in [0, 1)
YInUnit == 0 <= rv.y[1] /\ rv.y[1] < rv.y[2]

\* C9 as stated: for y in [0, 1) the argument of asin lies in [-1, 1] and
\* the longitude and latitude returned are numbers.
C9_Original ==
  (MollweideCalled /\ YInUnit) =>
    /\ DGe(rv.out.arg, DInt(-1)) /\ DGe(DInt(1), rv.out.arg)
    /\ ~IsNaN(rv.out.lng) /\ ~IsNaN(rv.out.lat)

\* C9, amended: for y in [0, 1) the argument of asin lies in [-1, 1], and
\* the longitude and latitude returned are numbers, when 1/4 <= y < 3/4;
\* when y < 1/4 or y > 3/4 the argument is 4y - 2, outside [-1, 1], and both
\* results are NaN.
C9_DefinedOnMiddleHalf ==
  (MollweideCalled /\ YInUnit) =>
    /\ (rv.y[2] <= 4 * rv.y[1] /\ 4 * rv.y[1] < 3 * rv.y[2]) =>
         /\ DGe(rv.out.arg, DInt(-1)) /\ DGe(DInt(1), rv.out.arg)
         /\ ~IsNaN(rv.out.lng) /\ ~IsNaN(rv.out.lat)
    /\ (4 * rv.y[1] < rv.y[2] \/ 4 * rv.y[1] > 3 * rv.y[2]) =>
         /\ rv.out.arg = Dbl(4 * rv.y[1] - 2 * rv.y[2], rv.y[2])
         /\ ~(DGe(rv.out.arg, DInt(-1)) /\ DGe(DInt(1), rv.out.arg))
         /\ IsNaN(rv.out.lng) /\ IsNaN(rv.out.lat)

\* reverse was called with y = 1/8: asin got -3/2 and both results are NaN
C9_Witness ==
  /\ MollweideCalled
  /\ rv.y = Dbl(1, 8)
  /\ rv.out.arg = Dbl(-3, 2)
  /\ IsNaN(rv.out.lng) /\ IsNaN(rv.out.lat)

\* C10: the coordinates passed to the interpolator satisfy 0 <= x <
\* source.cols and 0 <= y < source.rows, and the interpolator is not called
\* for a pixel that gets the sentinel.
C10_InterpolatorPrecondition ==
  \A i \in DOMAIN calls :
    /\ \A c \in calls[i] :
         /\ DGe(c[1], DInt(0)) /\ DLt(c[1], DInt(worker.src.cols))
         /\ DGe(c[2], DInt(0)) /\ DLt(c[2], DInt(worker.src.rows))
    /\ (Done(i) /\ tgt[OffsetOf(i % worker.tgt.rows, i \div worker.tgt.rows)] = Sentinel)
         => calls[i] = {}

\* the interpolator was called for one pixel, away from the grid points, and
\* not for another, which got the sentinel
C10_Witness ==
  /\ HasProjection
  /\ \E i \in DOMAIN calls : \E c \in calls[i] : c[1][2] > 1 /\ c[2][2] > 1
  /\ \E i \in DOMAIN calls :
       /\ Done(i) /\ calls[i] = {}
       /\ tgt[OffsetOf(i % worker.tgt.rows, i \div worker.tgt.rows)] = Sentinel

====
